---- MODULE Spec2Model ----
(***************************************************************************)
(* The KV migration of lakeFS: the provider registry and the Migrate       *)
(* coordinator (pkg/kv/postgres/migrate.go) and the import side of the      *)
(* export stream codec (pkg/kv/import.go), over a KV store with Get, Set   *)
(* and SetIf.                                                              *)
(***************************************************************************)
EXTENDS Integers, Sequences, FiniteSets, TLC

\* Entry records per export stream.
MaxEntries == 2

(***************************************************************************)
(* Byte strings, Go slices and JSON records                                *)
(***************************************************************************)
K1 == <<1>>
K2 == <<2>>
V1 == <<7>>
EmptyBytes == << >>

\* kv.DBVersionPath, the key of the Version Marker.
DBVersionPath == <<118>>

\* kv.InitialMigrateVersion, the completion constant.
InitialMigrateVersion == 1

\* A Go []byte: nil, or a (possibly zero-length) byte sequence.
GoNil == [nil |-> TRUE, b |-> EmptyBytes]
Bytes(b) == [nil |-> FALSE, b |-> b]
len(s) == Len(s.b)

\* strconv.Itoa and strconv.Atoi on one decimal digit; Atoi of anything else
\* is an error (-1 here).
Itoa(n) == <<48 + n>>
IsNumber(b) == Len(b) = 1 /\ b[1] >= 48 /\ b[1] <= 57
Atoi(b) == IF IsNumber(b) THEN b[1] - 48 ELSE -1

\* kv.Header; the timestamp is a number, 0 the zero time.
ZeroHeader == [LakeFSVersion |-> "", PkgName |-> "", DBVersion |-> 0, Timestamp |-> 0]
ValidHeader == [LakeFSVersion |-> "dev", PkgName |-> "pkg", DBVersion |-> 1, Timestamp |-> 1]
VersionOnlyHeader == [LakeFSVersion |-> "", PkgName |-> "", DBVersion |-> 1, Timestamp |-> 0]
Headers == {ZeroHeader, ValidHeader, VersionOnlyHeader}

\* The zero kv.Entry.
ZeroEntry == [Key |-> GoNil, Value |-> GoNil]

\* A member of a JSON object as the decoder meets it: not in the object,
\* null, or a (base64) string carrying bytes.
Absent == [tag |-> "absent", b |-> EmptyBytes]
Null == [tag |-> "null", b |-> EmptyBytes]
Str(b) == [tag |-> "str", b |-> b]

\* One JSON value of a stream: malformed (bad), or an object carrying the
\* Header members of hdr (those at their zero value are not distinguishable
\* from members left out) and the Entry members key and value.
Malformed == [bad |-> TRUE, hdr |-> ZeroHeader, key |-> Absent, value |-> Absent]
Object(h, k, v) == [bad |-> FALSE, hdr |-> h, key |-> k, value |-> v]

(***************************************************************************)
(* Errors: msg is the text of the outermost wrapping, pkg the provider it  *)
(* names, is the wrapped error errors.Is finds, cause the wrapped text.    *)
(***************************************************************************)
Err(msg, is) == [msg |-> msg, pkg |-> "", is |-> is, cause |-> ""]
Wrap(msg, p, e) == [msg |-> msg, pkg |-> p, is |-> e.is, cause |-> e.msg]

(***************************************************************************)
(* The KV store: a function from the keys that have a value to the value.  *)
(***************************************************************************)
EmptyStore == [k \in {} |-> EmptyBytes]

\* store.Set(key, value)
Set(st, key, value) == [k \in DOMAIN st \cup {key} |-> IF k = key THEN value ELSE st[k]]

\* store.SetIf(key, value, nil): set only if the key has no value.
SetIfAllowed(st, key) == key \notin DOMAIN st
SetIf(st, key, value) ==
    IF SetIfAllowed(st, key)
    THEN [st |-> Set(st, key, value), err |-> "nil"]
    ELSE [st |-> st, err |-> "ErrPredicateFailed"]

\* kv.GetDBVersion: the marker parsed as a number.
GetDBVersion(st) ==
    IF DBVersionPath \notin DOMAIN st THEN [version |-> -1, err |-> "ErrNotFound"]
    ELSE IF ~IsNumber(st[DBVersionPath]) THEN [version |-> -1, err |-> "syntax"]
    ELSE [version |-> Atoi(st[DBVersionPath]), err |-> "nil"]

(***************************************************************************)
(* kv.Import, one decoder step at a time                                   *)
(***************************************************************************)
\* json.Decoder.Decode into a []byte field that already holds cur.
DecodeField(cur, f) ==
    CASE f.tag = "absent" -> cur
      [] f.tag = "null" -> GoNil
      [] f.tag = "str" -> Bytes(f.b)

\* jd.Decode(&entry): entry is declared once, outside the loop.
DecodeEntry(entry, rec) ==
    [Key |-> DecodeField(entry.Key, rec.key), Value |-> DecodeField(entry.Value, rec.value)]

\* jd.Decode(&header) on a fresh Header.
DecodeHeader(rec) == rec.hdr

\* The header read but not compared with Header{}.
ImportHeader_NoZeroCheck(f) ==
    IF Len(f) = 0
    THEN [res |-> "err", err |-> Err("empty file", "ErrInvalidFormat")]
    ELSE IF f[1].bad
    THEN [res |-> "err", err |-> Err("decoding header", "json")]
    ELSE [res |-> "run", err |-> Err("", "nil")]

\* Reading and checking the header: the outcome of import.go lines 28-42.
\* res is "run" while Import goes on, "nil" or "err" once it has returned.
ImportHeader(f) ==
    IF Len(f) = 0
    THEN [res |-> "err", err |-> Err("empty file", "ErrInvalidFormat")]
    ELSE IF f[1].bad
    THEN [res |-> "err", err |-> Err("decoding header", "json")]
    ELSE IF DecodeHeader(f[1]) = ZeroHeader
    THEN [res |-> "err", err |-> Err("bad header format", "ErrInvalidFormat")]
    ELSE [res |-> "run", err |-> Err("", "nil")]

\* The entry loop taking a zero-length value for a missing one.
ImportEntry_LenOfValue(st, f, pos, entry) ==
    IF pos = Len(f)
    THEN [res |-> "nil", err |-> Err("", "nil"), st |-> st, entry |-> entry, calls |-> << >>]
    ELSE IF f[pos + 1].bad
    THEN [res |-> "err", err |-> Err("decoding entry", "json"), st |-> st,
          entry |-> entry, calls |-> << >>]
    ELSE LET e == DecodeEntry(entry, f[pos + 1]) IN
         IF len(e.Key) = 0
         THEN [res |-> "err", err |-> Err("bad entry key", "ErrInvalidFormat"), st |-> st,
               entry |-> e, calls |-> << >>]
         ELSE IF len(e.Value) = 0
         THEN [res |-> "err", err |-> Err("bad entry value", "ErrInvalidFormat"), st |-> st,
               entry |-> e, calls |-> << >>]
         ELSE LET r == SetIf(st, e.Key.b, e.Value.b)
                  c == <<[key |-> e.Key.b, value |-> e.Value.b, err |-> r.err]>> IN
              IF r.err # "nil"
              THEN [res |-> "err", err |-> Err("", r.err), st |-> st, entry |-> e, calls |-> c]
              ELSE [res |-> "run", err |-> Err("", "nil"), st |-> r.st, entry |-> e,
                    calls |-> c]

\* The entry loop dropping the error of SetIf.
ImportEntry_IgnoreSetIfError(st, f, pos, entry) ==
    IF pos = Len(f)
    THEN [res |-> "nil", err |-> Err("", "nil"), st |-> st, entry |-> entry, calls |-> << >>]
    ELSE IF f[pos + 1].bad
    THEN [res |-> "err", err |-> Err("decoding entry", "json"), st |-> st,
          entry |-> entry, calls |-> << >>]
    ELSE LET e == DecodeEntry(entry, f[pos + 1]) IN
         IF len(e.Key) = 0
         THEN [res |-> "err", err |-> Err("bad entry key", "ErrInvalidFormat"), st |-> st,
               entry |-> e, calls |-> << >>]
         ELSE IF e.Value.nil
         THEN [res |-> "err", err |-> Err("bad entry value", "ErrInvalidFormat"), st |-> st,
               entry |-> e, calls |-> << >>]
         ELSE LET r == SetIf(st, e.Key.b, e.Value.b)
                  c == <<[key |-> e.Key.b, value |-> e.Value.b, err |-> r.err]>> IN
              [res |-> "run", err |-> Err("", "nil"), st |-> r.st, entry |-> e, calls |-> c]

\* The entry loop writing with Set, whatever the key holds.
ImportEntry_Overwrite(st, f, pos, entry) ==
    IF pos = Len(f)
    THEN [res |-> "nil", err |-> Err("", "nil"), st |-> st, entry |-> entry, calls |-> << >>]
    ELSE IF f[pos + 1].bad
    THEN [res |-> "err", err |-> Err("decoding entry", "json"), st |-> st,
          entry |-> entry, calls |-> << >>]
    ELSE LET e == DecodeEntry(entry, f[pos + 1]) IN
         IF len(e.Key) = 0
         THEN [res |-> "err", err |-> Err("bad entry key", "ErrInvalidFormat"), st |-> st,
               entry |-> e, calls |-> << >>]
         ELSE IF e.Value.nil
         THEN [res |-> "err", err |-> Err("bad entry value", "ErrInvalidFormat"), st |-> st,
               entry |-> e, calls |-> << >>]
         ELSE [res |-> "run", err |-> Err("", "nil"), st |-> Set(st, e.Key.b, e.Value.b),
               entry |-> e,
               calls |-> <<[key |-> e.Key.b, value |-> e.Value.b, err |-> "nil"]>>]

\* One iteration of the entry loop, import.go lines 45-64, with pos records
\* already consumed and entry as the last iteration left it. calls lists the
\* SetIf call the iteration issued, if any, with its outcome.
ImportEntry(st, f, pos, entry) ==
    IF pos = Len(f)
    THEN [res |-> "nil", err |-> Err("", "nil"), st |-> st, entry |-> entry, calls |-> << >>]
    ELSE IF f[pos + 1].bad
    THEN [res |-> "err", err |-> Err("decoding entry", "json"), st |-> st,
          entry |-> entry, calls |-> << >>]
    ELSE LET e == DecodeEntry(entry, f[pos + 1]) IN
         IF len(e.Key) = 0
         THEN [res |-> "err", err |-> Err("bad entry key", "ErrInvalidFormat"), st |-> st,
               entry |-> e, calls |-> << >>]
         ELSE IF e.Value.nil
         THEN [res |-> "err", err |-> Err("bad entry value", "ErrInvalidFormat"), st |-> st,
               entry |-> e, calls |-> << >>]
         ELSE LET r == SetIf(st, e.Key.b, e.Value.b)
                  c == <<[key |-> e.Key.b, value |-> e.Value.b, err |-> r.err]>> IN
              IF r.err # "nil"
              THEN [res |-> "err", err |-> Err("", r.err), st |-> st, entry |-> e, calls |-> c]
              ELSE [res |-> "run", err |-> Err("", "nil"), st |-> r.st, entry |-> e,
                    calls |-> c]

(***************************************************************************)
(* Providers and what their export functions write                         *)
(***************************************************************************)
Providers == {"A", "B"}
AllTables == {"ta", "tb"}

\* The calls of Register the start-up code may make: name, function, tables.
RegisterArgs ==
    {<<"A", "exportA", {"ta"}>>, <<"B", "exportB", {"tb"}>>}

\* json.Encoder.Encode of a Header and of an Entry (both members always
\* written, a nil slice as null).
EncodeField(s) == IF s.nil THEN Null ELSE Str(s.b)
EncodeHeader(h) == Object(h, Absent, Absent)
EncodeEntry(e) == Object(ZeroHeader, EncodeField(e.Key), EncodeField(e.Value))
EncodeStream(h, es) == <<EncodeHeader(h)>> \o [i \in 1..Len(es) |-> EncodeEntry(es[i])]

SeqsUpTo(S, n) == UNION {[1..m -> S] : m \in 0..n}

\* The entries a provider's export function may emit, and the streams it may
\* leave in its staging file: nothing at all, or a header and up to
\* MaxEntries entries.
ExportEntries ==
    {[Key |-> Bytes(K1), Value |-> Bytes(V1)], [Key |-> Bytes(K2), Value |-> Bytes(EmptyBytes)],
     [Key |-> Bytes(DBVersionPath), Value |-> Bytes(V1)]}
ExportStreams ==
    {<< >>} \cup {EncodeStream(ValidHeader, es) : es \in SeqsUpTo(ExportEntries, MaxEntries)}

\* The streams a direct call of kv.Import may be given: any first record, then
\* up to MaxEntries records with any combination of key and value members.
KeyFields == {Absent, Null, Str(EmptyBytes), Str(K1), Str(K2)}
ValueFields == {Absent, Null, Str(EmptyBytes), Str(V1)}
FirstRecords ==
    {Malformed, Object(ZeroHeader, Str(K1), Str(V1))}
        \cup {Object(h, Absent, Absent) : h \in Headers}
RestRecords == {Malformed} \cup {Object(ZeroHeader, k, v) : k \in KeyFields, v \in ValueFields}
Streams ==
    {<< >>} \cup {<<h>> \o r : h \in FirstRecords, r \in SeqsUpTo(RestRecords, MaxEntries)}

\* The stores a direct call of kv.Import may be given.
ImportStores == {EmptyStore, [k \in {K1} |-> V1]}

(***************************************************************************)
(* State                                                                   *)
(***************************************************************************)
VARIABLES
    kvPkgs,      \* the registry: name -> [Func, Tables]
    store,       \* the KV table's contents, the Version Marker included
    kvTable,     \* whether the KV table exists
    dropped,     \* the source tables this invocation's DROP TABLE named
    pc,          \* where Migrate is
    params,      \* dbParams of the running invocation
    tables,      \* Migrate's local tables
    tmpDir,      \* the staging directory of this invocation: none, exists, removed
    task,        \* the provider goroutines: name -> [pc, pos, entry, err, issued]
    file,        \* the staging files: name -> [exists, data]
    ret,         \* what the last invocation returned: [state, errs]
    startVersion, \* history: what kv.GetDBVersion gave when the invocation began
    startDirty,  \* history: the store held entries besides the marker when it began
    atDispatch,  \* history: the keys that had a value when the goroutines were started
    store0,      \* history: the store in the initial state
    didReset,    \* history: this invocation dropped the KV table
    exported,    \* history: the stream each provider's export function wrote
    afterCrash,  \* history: the process died in the invocation before this one,
                 \* between the two writes of the marker
    registerMu,  \* the registry lock: free, or held by the registering goroutine
    reg,         \* a goroutine calling Register or UnRegisterAll beside Migrate:
                 \* [pc, op, args]
    snap,        \* history: the registries there were while Migrate ranged over kvPkgs
    blobs,       \* the container's flat listing: a sequence of pages of blob names
    mark,        \* azureBlobWalker.mark: [HasMore, LastKey, ContinuationToken]
    walk,        \* the frame of Walk: [pc, op, marker, page, i, handed, fetched, mark0, ret]
    hist         \* history: [resumed, before] of the Walk in progress or last returned

vars == <<kvPkgs, store, kvTable, dropped, pc, params, tables, tmpDir, task, file, ret,
          startVersion, startDirty, atDispatch, store0, didReset, exported, afterCrash,
          registerMu, reg, snap, blobs, mark, walk, hist>>

\* The lock, the goroutine that takes it, and the history of the registry.
lockVars == <<registerMu, reg, snap>>
NoReg == [pc |-> "out", op |-> "none", args |-> <<"", "", {}>>]
InitLock == registerMu = "free" /\ reg = NoReg /\ snap = {}

\* The blob walker: NewAzureBlobWalker gives a walker whose mark has HasMore
\* set. A blob name is a positive number, 0 the empty string; a continuation
\* token is the number of pages before the one it fetches, 0 the empty string.
walkVars == <<blobs, mark, walk, hist>>
NewMark == [HasMore |-> TRUE, LastKey |-> 0, ContinuationToken |-> 0]
NoWalk ==
    [pc |-> "out", op |-> [After |-> 0, ContinuationToken |-> 0], marker |-> 0, page |-> << >>,
     i |-> 0, handed |-> << >>, fetched |-> << >>, mark0 |-> NewMark, ret |-> "none"]
NoHist == [resumed |-> FALSE, before |-> {}]
NoWalker == blobs = <<<< >>>> /\ mark = NewMark /\ walk = NoWalk /\ hist = NoHist

NoTask ==
    [pc |-> "none", pos |-> 0, entry |-> ZeroEntry, err |-> Err("", "nil"), issued |-> << >>]
NoFile == [exists |-> FALSE, data |-> << >>]
NoRet == [state |-> "none", errs |-> {}]
RetNil == [state |-> "nil", errs |-> {}]
RetErr(errs) == [state |-> "err", errs |-> errs]

Init ==
    /\ kvPkgs = [n \in {} |-> 0]
    /\ store = EmptyStore
    /\ kvTable = FALSE
    /\ dropped = {}
    /\ pc = "idle"
    /\ params = [KVEnabled |-> FALSE, DropTables |-> FALSE]
    /\ tables = {}
    /\ tmpDir = "none"
    /\ task = [p \in Providers |-> NoTask]
    /\ file = [p \in Providers |-> NoFile]
    /\ ret = NoRet
    /\ startVersion = GetDBVersion(EmptyStore)
    /\ startDirty = FALSE
    /\ atDispatch = {}
    /\ store0 = EmptyStore
    /\ didReset = FALSE
    /\ exported = [p \in Providers |-> << >>]
    /\ afterCrash = FALSE
    /\ InitLock
    /\ NoWalker

(***************************************************************************)
(* The registry                                                            *)
(***************************************************************************)
\* No invocation of Migrate is running. pc is "returned" from the return of an
\* invocation until the next call of Migrate, Register or UnRegisterAll.
NotRunning == pc \in {"idle", "returned"}

\* Nothing is left of the last invocation: its locals, goroutines and result.
Forget ==
    /\ params' = [KVEnabled |-> FALSE, DropTables |-> FALSE]
    /\ tables' = {}
    /\ dropped' = {}
    /\ tmpDir' = "none"
    /\ task' = [p \in Providers |-> NoTask]
    /\ file' = [p \in Providers |-> NoFile]
    /\ ret' = NoRet
    /\ startVersion' = GetDBVersion(EmptyStore)
    /\ startDirty' = FALSE
    /\ atDispatch' = {}
    /\ didReset' = FALSE
    /\ exported' = [p \in Providers |-> << >>]

\* Register storing the entry whether or not the name is taken.
Register_Overwrite(name, f, t) ==
    /\ NotRunning
    /\ kvPkgs' = [n \in DOMAIN kvPkgs \cup {name} |->
                    IF n = name THEN [Func |-> f, Tables |-> t] ELSE kvPkgs[n]]
    /\ pc' = "idle"
    /\ Forget
    /\ UNCHANGED <<store, kvTable, store0>>
    /\ afterCrash' = (pc = "idle" /\ afterCrash)
    /\ UNCHANGED lockVars
    /\ UNCHANGED walkVars

\* Register: a name already in kvPkgs panics, which ends the process.
Register(name, f, t) ==
    /\ NotRunning
    /\ IF name \in DOMAIN kvPkgs
       THEN pc' = "panic" /\ UNCHANGED kvPkgs
       ELSE /\ kvPkgs' = [n \in DOMAIN kvPkgs \cup {name} |->
                            IF n = name THEN [Func |-> f, Tables |-> t] ELSE kvPkgs[n]]
            /\ pc' = "idle"
    /\ Forget
    /\ UNCHANGED <<store, kvTable, store0>>
    /\ afterCrash' = (pc = "idle" /\ afterCrash)
    /\ UNCHANGED lockVars
    /\ UNCHANGED walkVars

UnRegisterAll ==
    /\ NotRunning
    /\ kvPkgs' = [n \in {} |-> 0]
    /\ pc' = "idle"
    /\ Forget
    /\ UNCHANGED <<store, kvTable, store0>>
    /\ afterCrash' = (pc = "idle" /\ afterCrash)
    /\ UNCHANGED lockVars
    /\ UNCHANGED walkVars

(***************************************************************************)
(* Migrate                                                                 *)
(***************************************************************************)
\* return err
Return(e) == pc' = "returned" /\ ret' = RetErr({[by |-> "", err |-> e]})

\* The call going on without looking at KVEnabled.
MigrateCall_IgnoreEnabled(enabled, drop) ==
    /\ NotRunning
    /\ params' = [KVEnabled |-> enabled, DropTables |-> drop]
    /\ tables' = {}
    /\ dropped' = {}
    /\ tmpDir' = "none"
    /\ task' = [p \in Providers |-> NoTask]
    /\ file' = [p \in Providers |-> NoFile]
    /\ startVersion' = GetDBVersion(store)
    /\ startDirty' = (DOMAIN store \ {DBVersionPath} # {})
    /\ atDispatch' = {}
    /\ UNCHANGED store0
    /\ didReset' = FALSE
    /\ exported' = [p \in Providers |-> << >>]
    /\ pc' = "open" /\ ret' = NoRet
    /\ UNCHANGED <<kvPkgs, store, kvTable>>
    /\ afterCrash' = (pc = "idle" /\ afterCrash)
    /\ UNCHANGED lockVars
    /\ UNCHANGED walkVars

\* The call, and the KVEnabled check of lines 39-41.
MigrateCall(enabled, drop) ==
    /\ NotRunning
    /\ params' = [KVEnabled |-> enabled, DropTables |-> drop]
    /\ tables' = {}
    /\ dropped' = {}
    /\ tmpDir' = "none"
    /\ task' = [p \in Providers |-> NoTask]
    /\ file' = [p \in Providers |-> NoFile]
    /\ startVersion' = GetDBVersion(store)
    /\ startDirty' = (DOMAIN store \ {DBVersionPath} # {})
    /\ atDispatch' = {}
    /\ UNCHANGED store0
    /\ didReset' = FALSE
    /\ exported' = [p \in Providers |-> << >>]
    /\ IF enabled THEN pc' = "open" /\ ret' = NoRet ELSE pc' = "returned" /\ ret' = RetNil
    /\ UNCHANGED <<kvPkgs, store, kvTable>>
    /\ afterCrash' = (pc = "idle" /\ afterCrash)
    /\ UNCHANGED lockVars
    /\ UNCHANGED walkVars

\* kv.Open, line 43: the open flow creates the table when it is missing.
OpenStore ==
    /\ pc = "open"
    /\ \/ kvTable' = TRUE /\ pc' = "validate" /\ UNCHANGED ret
       \/ Return(Err("opening kv store", "io")) /\ UNCHANGED kvTable
    /\ UNCHANGED <<kvPkgs, store, dropped, params, tables, tmpDir, task, file,
                   startVersion, startDirty, atDispatch, store0, didReset, exported>>
    /\ UNCHANGED afterCrash
    /\ UNCHANGED lockVars
    /\ UNCHANGED walkVars

\* validateVersion with the comparison turned round.
validateVersion_Greater(got) ==
    IF got.err = "ErrNotFound" THEN [shouldDrop |-> FALSE, err |-> "nil"]
    ELSE IF got.err = "nil"
    THEN [shouldDrop |-> got.version > InitialMigrateVersion, err |-> "nil"]
    ELSE [shouldDrop |-> FALSE, err |-> got.err]

\* validateVersion taking any read error for a missing marker.
validateVersion_SwallowError(got) ==
    IF got.err = "nil"
    THEN [shouldDrop |-> got.version < InitialMigrateVersion, err |-> "nil"]
    ELSE [shouldDrop |-> FALSE, err |-> "nil"]

\* validateVersion, lines 138-146, on what kv.GetDBVersion returned.
validateVersion(got) ==
    IF got.err = "ErrNotFound" THEN [shouldDrop |-> FALSE, err |-> "nil"]
    ELSE IF got.err = "nil"
    THEN [shouldDrop |-> got.version < InitialMigrateVersion, err |-> "nil"]
    ELSE [shouldDrop |-> FALSE, err |-> got.err]

\* The version check returning nil at once on a completed store.
ValidateVersion_SkipComplete ==
    /\ pc = "validate"
    /\ \E got \in {GetDBVersion(store), [version |-> -1, err |-> "io"]} :
         LET v == validateVersion(got) IN
         IF v.err # "nil"
         THEN Return(Wrap("validating version", "", Err("", v.err)))
         ELSE IF got.err = "nil" /\ ~v.shouldDrop
         THEN pc' = "returned" /\ ret' = RetNil
         ELSE pc' = (IF v.shouldDrop THEN "drop" ELSE "mark") /\ UNCHANGED ret
    /\ UNCHANGED <<kvPkgs, store, kvTable, dropped, params, tables, tmpDir, task, file,
                   startVersion, startDirty, atDispatch, store0, didReset, exported>>
    /\ UNCHANGED afterCrash
    /\ UNCHANGED lockVars
    /\ UNCHANGED walkVars

\* Lines 49-53; the read of the marker may also fail in the store.
ValidateVersion ==
    /\ pc = "validate"
    /\ \E got \in {GetDBVersion(store), [version |-> -1, err |-> "io"]} :
         LET v == validateVersion(got) IN
         IF v.err # "nil"
         THEN Return(Wrap("validating version", "", Err("", v.err)))
         ELSE pc' = (IF v.shouldDrop THEN "drop" ELSE "mark") /\ UNCHANGED ret
    /\ UNCHANGED <<kvPkgs, store, kvTable, dropped, params, tables, tmpDir, task, file,
                   startVersion, startDirty, atDispatch, store0, didReset, exported>>
    /\ UNCHANGED afterCrash
    /\ UNCHANGED lockVars
    /\ UNCHANGED walkVars

\* dropTables of the KV table, lines 57-60.
DropKVTable ==
    /\ pc = "drop"
    /\ \/ /\ store' = EmptyStore /\ kvTable' = FALSE /\ didReset' = TRUE
          /\ pc' = "reopen" /\ UNCHANGED ret
       \/ /\ Return(Err("failed during drop tables", "io"))
          /\ UNCHANGED <<store, kvTable, didReset>>
    /\ UNCHANGED <<kvPkgs, dropped, params, tables, tmpDir, task, file, startVersion,
                   startDirty, atDispatch, store0, exported>>
    /\ UNCHANGED afterCrash
    /\ UNCHANGED lockVars
    /\ UNCHANGED walkVars

\* The second kv.Open, lines 61-65, which recreates the table.
ReopenStore ==
    /\ pc = "reopen"
    /\ \/ kvTable' = TRUE /\ pc' = "mark" /\ UNCHANGED ret
       \/ Return(Err("opening kv store", "io")) /\ UNCHANGED kvTable
    /\ UNCHANGED <<kvPkgs, store, dropped, params, tables, tmpDir, task, file,
                   startVersion, startDirty, atDispatch, store0, didReset, exported>>
    /\ UNCHANGED afterCrash
    /\ UNCHANGED lockVars
    /\ UNCHANGED walkVars

\* Going on to the import without the in-progress marker.
MarkStarted_Skip ==
    /\ pc = "mark"
    /\ \/ pc' = "mkdir" /\ UNCHANGED <<store, ret>>
       \/ Return(Err("set", "io")) /\ UNCHANGED store
    /\ UNCHANGED <<kvPkgs, kvTable, dropped, params, tables, tmpDir, task, file,
                   startVersion, startDirty, atDispatch, store0, didReset, exported>>
    /\ UNCHANGED afterCrash
    /\ UNCHANGED lockVars
    /\ UNCHANGED walkVars

\* store.Set(DBVersionPath, "0"), lines 69-72.
MarkStarted ==
    /\ pc = "mark"
    /\ \/ store' = Set(store, DBVersionPath, <<48>>) /\ pc' = "mkdir" /\ UNCHANGED ret
       \/ Return(Err("set", "io")) /\ UNCHANGED store
    /\ UNCHANGED <<kvPkgs, kvTable, dropped, params, tables, tmpDir, task, file,
                   startVersion, startDirty, atDispatch, store0, didReset, exported>>
    /\ UNCHANGED afterCrash
    /\ UNCHANGED lockVars
    /\ UNCHANGED walkVars

\* os.MkdirTemp, lines 77-80.
MkdirTemp ==
    /\ pc = "mkdir"
    /\ \/ tmpDir' = "exists" /\ pc' = "dispatch" /\ UNCHANGED ret
       \/ Return(Err("create temp dir", "io")) /\ UNCHANGED tmpDir
    /\ UNCHANGED <<kvPkgs, store, kvTable, dropped, params, tables, task, file,
                   startVersion, startDirty, atDispatch, store0, didReset, exported>>
    /\ UNCHANGED afterCrash
    /\ UNCHANGED lockVars
    /\ UNCHANGED walkVars

\* The loop leaving after its first iteration.
Dispatch_Break ==
    /\ pc = "dispatch"
    /\ \E first \in SUBSET DOMAIN kvPkgs :
         /\ Cardinality(first) = IF kvPkgs = [n \in {} |-> 0] THEN 0 ELSE 1
         /\ tables' = UNION {kvPkgs[n].Tables : n \in first}
         /\ task' = [p \in Providers |->
                       IF p \in first THEN [NoTask EXCEPT !.pc = "export"] ELSE NoTask]
    /\ atDispatch' = DOMAIN store
    /\ pc' = "wait"
    /\ UNCHANGED <<kvPkgs, store, kvTable, dropped, params, tmpDir, file, ret,
                   startVersion, startDirty, store0, didReset, exported>>
    /\ UNCHANGED afterCrash
    /\ UNCHANGED lockVars
    /\ UNCHANGED walkVars

\* The loop of lines 83-111: collect the tables, start one goroutine each.
Dispatch ==
    /\ pc = "dispatch"
    /\ tables' = UNION {kvPkgs[n].Tables : n \in DOMAIN kvPkgs}
    /\ task' = [p \in Providers |->
                  IF p \in DOMAIN kvPkgs THEN [NoTask EXCEPT !.pc = "export"] ELSE NoTask]
    /\ atDispatch' = DOMAIN store
    /\ pc' = "wait"
    /\ UNCHANGED <<kvPkgs, store, kvTable, dropped, params, tmpDir, file, ret,
                   startVersion, startDirty, store0, didReset, exported>>
    /\ UNCHANGED afterCrash
    /\ UNCHANGED lockVars
    /\ UNCHANGED walkVars

TaskFail(p, e) == task' = [task EXCEPT ![p].pc = "err", ![p].err = e]

\* Lines 90-103 of one goroutine: create the staging file, run the export
\* function, rewind. Each of the three may fail.
TaskExport(p) ==
    /\ task[p].pc = "export"
    /\ \/ TaskFail(p, Err("create temp file", "io")) /\ UNCHANGED <<file, exported>>
       \/ /\ TaskFail(p, Wrap("failed migration on package", p, Err("export", "io")))
          /\ file' = [file EXCEPT ![p] = [exists |-> TRUE, data |-> << >>]]
          /\ UNCHANGED exported
       \/ \E s \in ExportStreams :
            /\ file' = [file EXCEPT ![p] = [exists |-> TRUE, data |-> s]]
            /\ exported' = [exported EXCEPT ![p] = s]
            /\ \/ TaskFail(p, Wrap("failed seek file on package", p, Err("seek", "io")))
               \/ task' = [task EXCEPT ![p].pc = "import"]
    /\ UNCHANGED <<kvPkgs, store, kvTable, dropped, pc, params, tables, tmpDir, ret,
                   startVersion, startDirty, atDispatch, store0, didReset>>
    /\ UNCHANGED afterCrash
    /\ UNCHANGED lockVars
    /\ UNCHANGED walkVars

\* What the goroutine does with Import's result, lines 105-109.
TaskAfterImport(p, res, e) ==
    IF res = "err" THEN Wrap("failed import on package", p, e) ELSE Err("", "nil")

\* kv.Import, lines 28-42 of import.go, in goroutine p.
TaskImportHeader(p) ==
    /\ task[p].pc = "import"
    /\ LET r == ImportHeader(file[p].data) IN
       task' = [task EXCEPT ![p].pc = IF r.res = "run" THEN "entries" ELSE "err",
                            ![p].pos = IF r.res = "run" THEN 1 ELSE 0,
                            ![p].err = TaskAfterImport(p, r.res, r.err)]
    /\ UNCHANGED <<kvPkgs, store, kvTable, dropped, pc, params, tables, tmpDir, file, ret,
                   startVersion, startDirty, atDispatch, store0, didReset, exported>>
    /\ UNCHANGED afterCrash
    /\ UNCHANGED lockVars
    /\ UNCHANGED walkVars

\* One iteration of Import's entry loop in goroutine p.
TaskImportEntry(p) ==
    /\ task[p].pc = "entries"
    /\ LET r == ImportEntry(store, file[p].data, task[p].pos, task[p].entry) IN
       /\ store' = r.st
       /\ task' = [task EXCEPT ![p].pc = CASE r.res = "run" -> "entries"
                                           [] r.res = "nil" -> "ok"
                                           [] r.res = "err" -> "err",
                               ![p].pos = IF r.res = "nil" THEN @ ELSE @ + 1,
                               ![p].entry = r.entry,
                               ![p].issued = @ \o r.calls,
                               ![p].err = TaskAfterImport(p, r.res, r.err)]
    /\ UNCHANGED <<kvPkgs, kvTable, dropped, pc, params, tables, tmpDir, file, ret,
                   startVersion, startDirty, atDispatch, store0, didReset, exported>>
    /\ UNCHANGED afterCrash
    /\ UNCHANGED lockVars
    /\ UNCHANGED walkVars

TaskDone(p) == task[p].pc \in {"none", "ok", "err"}

\* Waiting for all, but going on whatever they returned.
WaitAll_IgnoreErrors ==
    /\ pc = "wait"
    /\ \A p \in Providers : task[p].pc \in {"none", "ok", "err"}
    /\ pc' = "finalize"
    /\ UNCHANGED <<kvPkgs, store, kvTable, dropped, params, tables, tmpDir, task, file, ret,
                   startVersion, startDirty, atDispatch, store0, didReset, exported>>
    /\ UNCHANGED afterCrash
    /\ UNCHANGED lockVars
    /\ UNCHANGED walkVars

\* Returning at the first failure, as a fail-fast group would.
WaitAll_FailFast ==
    /\ pc = "wait"
    /\ LET errs == {[by |-> p, err |-> task[p].err] :
                       p \in {q \in Providers : task[q].pc = "err"}} IN
       /\ errs # {} \/ \A p \in Providers : task[p].pc \in {"none", "ok", "err"}
       /\ IF errs # {} THEN pc' = "returned" /\ ret' = RetErr(errs)
          ELSE pc' = "finalize" /\ UNCHANGED ret
    /\ UNCHANGED <<kvPkgs, store, kvTable, dropped, params, tables, tmpDir, task, file,
                   startVersion, startDirty, atDispatch, store0, didReset, exported>>
    /\ UNCHANGED afterCrash
    /\ UNCHANGED lockVars
    /\ UNCHANGED walkVars

\* g.Wait().ErrorOrNil(), lines 112-115.
WaitAll ==
    /\ pc = "wait"
    /\ \A p \in Providers : TaskDone(p)
    /\ LET errs == {[by |-> p, err |-> task[p].err] :
                       p \in {q \in Providers : task[q].pc = "err"}} IN
       IF errs # {} THEN pc' = "returned" /\ ret' = RetErr(errs)
       ELSE pc' = "finalize" /\ UNCHANGED ret
    /\ UNCHANGED <<kvPkgs, store, kvTable, dropped, params, tables, tmpDir, task, file,
                   startVersion, startDirty, atDispatch, store0, didReset, exported>>
    /\ UNCHANGED afterCrash
    /\ UNCHANGED lockVars
    /\ UNCHANGED walkVars

\* store.Set(DBVersionPath, Itoa(InitialMigrateVersion)), lines 118-121.
Finalize ==
    /\ pc = "finalize"
    /\ \/ /\ store' = Set(store, DBVersionPath, Itoa(InitialMigrateVersion))
          /\ pc' = "dropsrc" /\ UNCHANGED ret
       \/ /\ Return(Wrap("failed setting migrate version", "", Err("set", "io")))
          /\ UNCHANGED store
    /\ UNCHANGED <<kvPkgs, kvTable, dropped, params, tables, tmpDir, task, file,
                   startVersion, startDirty, atDispatch, store0, didReset, exported>>
    /\ UNCHANGED afterCrash
    /\ UNCHANGED lockVars
    /\ UNCHANGED walkVars

\* Dropping the source tables without looking at DropTables.
DropSourceTables_IgnoreFlag ==
    /\ pc = "dropsrc"
    /\ IF tables # {}
       THEN \/ dropped' = tables /\ pc' = "rmdir" /\ UNCHANGED ret
            \/ Return(Err("failed during drop tables", "io")) /\ UNCHANGED dropped
       ELSE pc' = "rmdir" /\ UNCHANGED <<dropped, ret>>
    /\ UNCHANGED <<kvPkgs, store, kvTable, params, tables, tmpDir, task, file,
                   startVersion, startDirty, atDispatch, store0, didReset, exported>>
    /\ UNCHANGED afterCrash
    /\ UNCHANGED lockVars
    /\ UNCHANGED walkVars

\* Lines 123-128 and dropTables: nothing to do for an empty list.
DropSourceTables ==
    /\ pc = "dropsrc"
    /\ IF params.DropTables /\ tables # {}
       THEN \/ dropped' = tables /\ pc' = "rmdir" /\ UNCHANGED ret
            \/ Return(Err("failed during drop tables", "io")) /\ UNCHANGED dropped
       ELSE pc' = "rmdir" /\ UNCHANGED <<dropped, ret>>
    /\ UNCHANGED <<kvPkgs, store, kvTable, params, tables, tmpDir, task, file,
                   startVersion, startDirty, atDispatch, store0, didReset, exported>>
    /\ UNCHANGED afterCrash
    /\ UNCHANGED lockVars
    /\ UNCHANGED walkVars

\* os.RemoveAll(tmpDir), lines 129-132: a failure is only logged.
RemoveTmpDir ==
    /\ pc = "rmdir"
    /\ \/ tmpDir' = "removed" /\ file' = [p \in Providers |-> NoFile]
       \/ UNCHANGED <<tmpDir, file>>
    /\ pc' = "returned"
    /\ ret' = RetNil
    /\ UNCHANGED <<kvPkgs, store, kvTable, dropped, params, tables, task,
                   startVersion, startDirty, atDispatch, store0, didReset, exported>>
    /\ UNCHANGED afterCrash
    /\ UNCHANGED lockVars
    /\ UNCHANGED walkVars

\* The process dies while Migrate runs: its memory (the registry, Migrate's
\* locals, the goroutines) is gone, the KV table stays as it is.
Crash ==
    /\ ~NotRunning /\ pc # "panic"
    /\ kvPkgs' = [n \in {} |-> 0]
    /\ pc' = "idle"
    /\ Forget
    /\ afterCrash' = (pc \in {"mkdir", "dispatch", "wait", "finalize"})
    /\ UNCHANGED <<store, kvTable, store0>>
    /\ UNCHANGED lockVars
    /\ UNCHANGED walkVars

Next ==
    \/ \E a \in RegisterArgs : Register(a[1], a[2], a[3])
    \/ UnRegisterAll
    \/ \E e \in BOOLEAN, d \in BOOLEAN : MigrateCall(e, d)
    \/ OpenStore
    \/ ValidateVersion
    \/ DropKVTable
    \/ ReopenStore
    \/ MarkStarted
    \/ MkdirTemp
    \/ Dispatch
    \/ \E p \in Providers : TaskExport(p)
    \/ \E p \in Providers : TaskImportHeader(p)
    \/ \E p \in Providers : TaskImportEntry(p)
    \/ WaitAll
    \/ Finalize
    \/ DropSourceTables
    \/ RemoveTmpDir

Spec == Init /\ [][Next]_vars

\* The same program in a process that may die at any point of an invocation.
InitCrash == Init

NextCrash ==
    \/ \E a \in RegisterArgs : Register(a[1], a[2], a[3])
    \/ UnRegisterAll
    \/ \E e \in BOOLEAN, d \in BOOLEAN : MigrateCall(e, d)
    \/ OpenStore
    \/ ValidateVersion
    \/ DropKVTable
    \/ ReopenStore
    \/ MarkStarted
    \/ MkdirTemp
    \/ Dispatch
    \/ \E p \in Providers : TaskExport(p)
    \/ \E p \in Providers : TaskImportHeader(p)
    \/ \E p \in Providers : TaskImportEntry(p)
    \/ WaitAll
    \/ Finalize
    \/ DropSourceTables
    \/ RemoveTmpDir
    \/ Crash

SpecCrash == InitCrash /\ [][NextCrash]_vars

(***************************************************************************)
(* kv.Import called on its own, on any stream and store                    *)
(***************************************************************************)
InitImport ==
    /\ kvPkgs = [n \in {} |-> 0]
    /\ store \in ImportStores
    /\ store0 = store
    /\ startDirty = (DOMAIN store \ {DBVersionPath} # {})
    /\ atDispatch = DOMAIN store
    /\ kvTable = TRUE
    /\ dropped = {}
    /\ pc = "import"
    /\ params = [KVEnabled |-> TRUE, DropTables |-> FALSE]
    /\ tables = {}
    /\ tmpDir = "none"
    /\ task = [p \in Providers |-> IF p = "A" THEN [NoTask EXCEPT !.pc = "import"] ELSE NoTask]
    /\ \E s \in Streams :
         /\ file = [p \in Providers |->
                      IF p = "A" THEN [exists |-> TRUE, data |-> s] ELSE NoFile]
         /\ exported = [p \in Providers |-> IF p = "A" THEN s ELSE << >>]
    /\ ret = NoRet
    /\ startVersion = GetDBVersion(store)
    /\ didReset = FALSE
    /\ afterCrash = FALSE
    /\ InitLock
    /\ NoWalker

NextImport ==
    \/ \E p \in Providers : TaskImportHeader(p)
    \/ \E p \in Providers : TaskImportEntry(p)

SpecImport == InitImport /\ [][NextImport]_vars

(***************************************************************************)
(* The registry on its own: any sequence of Register and UnRegisterAll,    *)
(* with any function and table list for a name                             *)
(***************************************************************************)
RegistryArgs == Providers \X {"exportA", "exportB"} \X SUBSET AllTables

InitRegistry == Init

NextRegistry ==
    \/ \E a \in RegistryArgs : Register(a[1], a[2], a[3])
    \/ UnRegisterAll

SpecRegistry == InitRegistry /\ [][NextRegistry]_vars

(***************************************************************************)
(* Migrate with one registered provider, called on a store found in any    *)
(* state: any marker (absent, a number below, at or above the completion   *)
(* constant, not a number), with or without an entry                       *)
(***************************************************************************)
GuardMarkers == {Itoa(0), Itoa(1), Itoa(2), V1}
GuardStores ==
    {EmptyStore, [k \in {K1} |-> V1]}
        \cup {[k \in {DBVersionPath} |-> m] : m \in GuardMarkers}
        \cup {[k \in {DBVersionPath, K1} |-> IF k = K1 THEN V1 ELSE m] : m \in GuardMarkers}

InitGuard ==
    /\ kvPkgs = [n \in {"A"} |-> [Func |-> "exportA", Tables |-> {"ta"}]]
    /\ store \in GuardStores
    /\ store0 = store
    /\ kvTable = (store # EmptyStore)
    /\ dropped = {}
    /\ pc = "idle"
    /\ params = [KVEnabled |-> FALSE, DropTables |-> FALSE]
    /\ tables = {}
    /\ tmpDir = "none"
    /\ task = [p \in Providers |-> NoTask]
    /\ file = [p \in Providers |-> NoFile]
    /\ ret = NoRet
    /\ startVersion = GetDBVersion(EmptyStore)
    /\ startDirty = FALSE
    /\ atDispatch = {}
    /\ didReset = FALSE
    /\ exported = [p \in Providers |-> << >>]
    /\ afterCrash = FALSE
    /\ InitLock
    /\ NoWalker

NextGuard ==
    \/ \E e \in BOOLEAN, d \in BOOLEAN : MigrateCall(e, d)
    \/ OpenStore
    \/ ValidateVersion
    \/ DropKVTable
    \/ ReopenStore
    \/ MarkStarted
    \/ MkdirTemp
    \/ Dispatch
    \/ \E p \in Providers : TaskExport(p)
    \/ \E p \in Providers : TaskImportHeader(p)
    \/ \E p \in Providers : TaskImportEntry(p)
    \/ WaitAll
    \/ Finalize
    \/ DropSourceTables
    \/ RemoveTmpDir

SpecGuard == InitGuard /\ [][NextGuard]_vars

(***************************************************************************)
(* Register and UnRegisterAll run by a goroutine beside Migrate, one       *)
(* statement at a time, and Migrate's loop over kvPkgs one iteration at a  *)
(* time. Migrate takes no lock (line 83), so the two interleave freely.    *)
(***************************************************************************)
runVars == <<store, kvTable, dropped, params, tables, tmpDir, task, file, ret, startVersion,
             startDirty, atDispatch, store0, didReset, exported, afterCrash>>

\* What a write of the registry adds to the history.
Seen(after) == IF pc = "dispatch" THEN snap \cup {kvPkgs, after} ELSE snap

\* registerMu.Lock(), lines 149 and 162.
RegLock(op, a) ==
    /\ pc \notin {"panic", "fatal"}
    /\ reg.pc = "out" /\ registerMu = "free"
    /\ registerMu' = "reg"
    /\ reg' = [pc |-> "in", op |-> op, args |-> a]
    /\ UNCHANGED <<kvPkgs, pc, snap, runVars>>
    /\ UNCHANGED walkVars

\* Lines 151-157 of Register, under the lock. The panic runs the deferred
\* Unlock and ends the process.
RegStore ==
    /\ pc \notin {"panic", "fatal"}
    /\ reg.pc = "in" /\ reg.op = "Register"
    /\ LET name == reg.args[1] IN
       IF name \in DOMAIN kvPkgs
       THEN /\ pc' = "panic" /\ registerMu' = "free" /\ reg' = NoReg
            /\ UNCHANGED <<kvPkgs, snap>>
       ELSE LET after == [n \in DOMAIN kvPkgs \cup {name} |->
                            IF n = name THEN [Func |-> reg.args[2], Tables |-> reg.args[3]]
                            ELSE kvPkgs[n]] IN
            /\ kvPkgs' = after
            /\ snap' = Seen(after)
            /\ reg' = [reg EXCEPT !.pc = "done"]
            /\ UNCHANGED <<pc, registerMu>>
    /\ UNCHANGED runVars
    /\ UNCHANGED walkVars

\* One delete of the loop of lines 164-166 of UnRegisterAll, under the lock.
RegDelete ==
    /\ pc \notin {"panic", "fatal"}
    /\ reg.pc = "in" /\ reg.op = "UnRegisterAll"
    /\ \E k \in DOMAIN kvPkgs :
         LET after == [n \in DOMAIN kvPkgs \ {k} |-> kvPkgs[n]] IN
         /\ kvPkgs' = after
         /\ snap' = Seen(after)
    /\ UNCHANGED <<pc, registerMu, reg, runVars>>
    /\ UNCHANGED walkVars

\* The deferred registerMu.Unlock() at the return of either.
RegUnlock ==
    /\ pc \notin {"panic", "fatal"}
    /\ \/ reg.pc = "done"
       \/ reg.pc = "in" /\ reg.op = "UnRegisterAll" /\ DOMAIN kvPkgs = {}
    /\ registerMu' = "free"
    /\ reg' = NoReg
    /\ UNCHANGED <<kvPkgs, pc, snap, runVars>>
    /\ UNCHANGED walkVars

\* An access of the map by Migrate's range statement while a writer is in its
\* critical section is a data race: the iteration may go on, on the map as it
\* is, or the runtime may end the process (concurrent map iteration and map
\* write).
RaceFatal == reg.pc = "in" /\ pc' = "fatal"

\* One iteration of the loop of lines 83-111: the range statement yields an
\* entry that is in the map now and was not yielded yet, line 86 appends its
\* tables and g.Go starts its goroutine.
RangeNext ==
    /\ pc = "dispatch"
    /\ \E n \in {m \in DOMAIN kvPkgs : task[m].pc = "none"} :
         \/ /\ tables' = tables \cup kvPkgs[n].Tables
            /\ task' = [task EXCEPT ![n].pc = "export"]
            /\ atDispatch' = DOMAIN store
            /\ snap' = snap \cup {kvPkgs}
            /\ UNCHANGED pc
         \/ /\ RaceFatal
            /\ UNCHANGED <<tables, task, atDispatch, snap>>
    /\ UNCHANGED <<kvPkgs, store, kvTable, dropped, params, tmpDir, file, ret, startVersion,
                   startDirty, store0, didReset, exported, afterCrash, registerMu, reg>>
    /\ UNCHANGED walkVars

\* The range statement finds no entry left: the loop ends, Migrate waits.
RangeEnd ==
    /\ pc = "dispatch"
    /\ {m \in DOMAIN kvPkgs : task[m].pc = "none"} = {}
    /\ \/ pc' = "wait" /\ snap' = snap \cup {kvPkgs}
       \/ RaceFatal /\ UNCHANGED snap
    /\ UNCHANGED <<kvPkgs, runVars, registerMu, reg>>
    /\ UNCHANGED walkVars

InitRace == Init

NextRace ==
    \/ \E a \in RegisterArgs : RegLock("Register", a)
    \/ RegLock("UnRegisterAll", NoReg.args)
    \/ RegStore
    \/ RegDelete
    \/ RegUnlock
    \/ \E e \in BOOLEAN, d \in BOOLEAN : MigrateCall(e, d)
    \/ OpenStore
    \/ ValidateVersion
    \/ DropKVTable
    \/ ReopenStore
    \/ MarkStarted
    \/ MkdirTemp
    \/ RangeNext
    \/ RangeEnd

SpecRace == InitRace /\ [][NextRace]_vars

(***************************************************************************)
(* azureBlobWalker (pkg/ingest/store/azure.go): Walk over a container      *)
(* listed in pages, and the mark it keeps for resuming                     *)
(***************************************************************************)
\* Blobs in the container (named 1..n in listing order) and pages of the
\* listing.
MaxBlobs == 3
MaxPages == 3

\* The listings ListBlobsFlatSegment may give: the names in order, cut into
\* one to MaxPages pages, any of which may be empty.
PageOf(n, cut, k) ==
    LET lo == IF k = 1 THEN 0 ELSE cut[k - 1] IN [j \in 1..(cut[k] - lo) |-> lo + j]
Listings ==
    UNION {UNION {
        {[k \in 1..np |-> PageOf(n, cut, k)] :
            cut \in {c \in [1..np -> 0..n] :
                       c[np] = n /\ \A k \in 1..(np - 1) : c[k] <= c[k + 1]}}
        : np \in 1..MaxPages} : n \in 0..MaxBlobs}

kvVars == <<kvPkgs, pc, runVars, lockVars>>

\* The WalkOptions that resume from a mark.
FromMark(m) == [After |-> m.LastKey, ContinuationToken |-> m.ContinuationToken]

\* listBlob.NextMarker of the page fetched with token t; marker.NotDone().
NextMarker(t) == IF t + 1 < Len(blobs) THEN t + 1 ELSE 0
NotDone(t) == t # 0

Range(s) == {s[j] : j \in 1..Len(s)}

\* The call of Walk and lines 72-78: a storage URI without a container makes
\* Walk return at line 74. op is a fresh WalkOptions or the one made from
\* Marker().
WalkCall(op, uriOk) ==
    /\ walk.pc = "out"
    /\ hist' = IF walk.ret = "err" /\ mark.HasMore /\ op = FromMark(mark)
               THEN [resumed |-> TRUE, before |-> hist.before \cup Range(walk.handed)]
               ELSE NoHist
    /\ walk' = [NoWalk EXCEPT !.pc = IF uriOk THEN "list" ELSE "out",
                              !.op = op,
                              !.marker = op.ContinuationToken,
                              !.mark0 = mark,
                              !.ret = IF uriOk THEN "none" ELSE "err"]
    /\ UNCHANGED <<blobs, mark, kvVars>>

\* The assignment of line 84 placed after line 85: the mark gets the token of
\* the next page.
ListPage_TokenAfter ==
    /\ walk.pc = "list"
    /\ \/ /\ walk' = [walk EXCEPT !.pc = "out", !.ret = "err"]
          /\ UNCHANGED mark
       \/ /\ mark' = [mark EXCEPT !.ContinuationToken = NextMarker(walk.marker)]
          /\ walk' = [walk EXCEPT !.pc = "items",
                                  !.page = blobs[walk.marker + 1],
                                  !.i = 1,
                                  !.fetched = Append(@, walk.marker),
                                  !.marker = NextMarker(walk.marker)]
    /\ UNCHANGED <<blobs, hist, kvVars>>

\* Lines 79-85: list the page the marker names; on success the mark takes the
\* token that fetched it and the marker moves on.
ListPage ==
    /\ walk.pc = "list"
    /\ \/ /\ walk' = [walk EXCEPT !.pc = "out", !.ret = "err"]
          /\ UNCHANGED mark
       \/ /\ mark' = [mark EXCEPT !.ContinuationToken = walk.marker]
          /\ walk' = [walk EXCEPT !.pc = "items",
                                  !.page = blobs[walk.marker + 1],
                                  !.i = 1,
                                  !.fetched = Append(@, walk.marker),
                                  !.marker = NextMarker(walk.marker)]
    /\ UNCHANGED <<blobs, hist, kvVars>>

\* Lines 86-102, one blob of the page: skipped when not after op.After,
\* otherwise noted in the mark and handed to walkFn, which may fail.
WalkItem ==
    /\ walk.pc = "items" /\ walk.i <= Len(walk.page)
    /\ LET name == walk.page[walk.i] IN
       IF walk.op.After # 0 /\ name <= walk.op.After
       THEN walk' = [walk EXCEPT !.i = @ + 1] /\ UNCHANGED mark
       ELSE /\ mark' = [mark EXCEPT !.LastKey = name]
            /\ \/ walk' = [walk EXCEPT !.i = @ + 1, !.handed = Append(@, name)]
               \/ walk' = [walk EXCEPT !.handed = Append(@, name), !.pc = "out", !.ret = "err"]
    /\ UNCHANGED <<blobs, hist, kvVars>>

\* Lines 103-110, the page is through: on to the next page, or the mark is
\* reset and Walk returns nil.
PageEnd ==
    /\ walk.pc = "items" /\ walk.i > Len(walk.page)
    /\ IF NotDone(walk.marker)
       THEN walk' = [walk EXCEPT !.pc = "list"] /\ UNCHANGED mark
       ELSE /\ mark' = [HasMore |-> FALSE, LastKey |-> 0, ContinuationToken |-> 0]
            /\ walk' = [walk EXCEPT !.pc = "out", !.ret = "nil"]
    /\ UNCHANGED <<blobs, hist, kvVars>>

InitWalk ==
    /\ blobs \in Listings
    /\ mark = NewMark /\ walk = NoWalk /\ hist = NoHist
    /\ kvPkgs = [n \in {} |-> 0]
    /\ store = EmptyStore
    /\ kvTable = FALSE
    /\ dropped = {}
    /\ pc = "idle"
    /\ params = [KVEnabled |-> FALSE, DropTables |-> FALSE]
    /\ tables = {}
    /\ tmpDir = "none"
    /\ task = [p \in Providers |-> NoTask]
    /\ file = [p \in Providers |-> NoFile]
    /\ ret = NoRet
    /\ startVersion = GetDBVersion(EmptyStore)
    /\ startDirty = FALSE
    /\ atDispatch = {}
    /\ store0 = EmptyStore
    /\ didReset = FALSE
    /\ exported = [p \in Providers |-> << >>]
    /\ afterCrash = FALSE
    /\ InitLock

NextWalk ==
    \/ \E uriOk \in BOOLEAN : WalkCall(NoWalk.op, uriOk) \/ WalkCall(FromMark(mark), uriOk)
    \/ ListPage
    \/ WalkItem
    \/ PageEnd

SpecWalk == InitWalk /\ [][NextWalk]_vars

(***************************************************************************)
(* Vocabulary of the properties                                            *)
(***************************************************************************)
MarkerIs(v) == DBVersionPath \in DOMAIN store /\ store[DBVersionPath] = v
Completed == MarkerIs(Itoa(InitialMigrateVersion))
InProgress == MarkerIs(<<48>>)

\* The invocation is between its first write of the marker and its return.
Importing == pc \in {"mkdir", "dispatch", "wait", "finalize", "dropsrc", "rmdir"}
Returned == pc = "returned" /\ params.KVEnabled

\* The entries of the store: everything but the marker.
Entries(st) == [k \in DOMAIN st \ {DBVersionPath} |-> st[k]]

\* No error of the returned result comes from the environment (the store, the
\* file system, the relational source or a provider's export function).
NoIOFailure == \A x \in ret.errs : x.err.is # "io"

\* A stream a correct export produces: a header that is not all zero, then
\* entries with a non-empty key and a present value.
ValidRecord(r) == ~r.bad /\ r.key.tag = "str" /\ Len(r.key.b) > 0 /\ r.value.tag = "str"
ValidStream(s) ==
    /\ Len(s) >= 1 /\ ~s[1].bad /\ s[1].hdr # ZeroHeader
    /\ \A i \in 2..Len(s) : ValidRecord(s[i])

\* The entry records exported in this invocation, by provider and position.
Slots == {<<p, i>> : p \in Providers, i \in 2..(MaxEntries + 2)} \cap
         {x \in Providers \X (2..(MaxEntries + 2)) : x[2] <= Len(exported[x[1]])}
SlotKey(x) == exported[x[1]][x[2]].key.b
SlotValue(x) == exported[x[1]][x[2]].value.b

\* Every started provider exported a valid stream, and no key occurs twice in
\* all of them, nor is one the marker's key.
ExportsValidDistinct ==
    /\ \A p \in Providers : task[p].pc # "none" => ValidStream(exported[p])
    /\ \A x \in Slots : SlotKey(x) # DBVersionPath
    /\ \A x \in Slots : \A y \in Slots : x # y => SlotKey(x) # SlotKey(y)

\* The key/value pairs exported in this invocation, as a store.
ExportedStore ==
    [k \in {SlotKey(x) : x \in Slots} |-> SlotValue(CHOOSE x \in Slots : SlotKey(x) = k)]

AllRegisteredOk == \A n \in DOMAIN kvPkgs : task[n].pc = "ok"

(***************************************************************************)
(* Properties                                                              *)
(***************************************************************************)
\* C1: while an invocation runs, the marker holds the completion constant only
\* once every registered provider's goroutine has returned success; an
\* invocation in which a provider failed returns an error, leaves the marker
\* off the completion constant and leaves the staging directory in place.
C1_FinalizedOnlyOnSuccess ==
    /\ (Importing /\ Completed) => (pc \in {"dropsrc", "rmdir"} /\ AllRegisteredOk)
    /\ (Returned /\ tmpDir # "none" /\ Completed) => AllRegisteredOk
    /\ (Returned /\ \E p \in Providers : task[p].pc = "err") =>
          (ret.state = "err" /\ ~Completed /\ tmpDir = "exists")

C1_Witness ==
    /\ Returned
    /\ \E p \in Providers, q \in Providers :
         task[p].pc = "err" /\ task[q].pc = "ok" /\ Len(task[q].issued) > 0

\* C2: an invocation that finds the marker at the in-progress sentinel, meets
\* no environment failure and whose providers export valid streams with
\* pairwise distinct keys drops the KV table, returns nil, and leaves the marker
\* at the completion constant and exactly the exported entries in the store.
C2_StaleRecovery ==
    (/\ Returned
     /\ startVersion = [version |-> 0, err |-> "nil"]
     /\ NoIOFailure
     /\ ExportsValidDistinct)
    => (/\ didReset
        /\ ret = RetNil
        /\ Completed
        /\ AllRegisteredOk
        /\ Entries(store) = ExportedStore)

C2_Witness ==
    /\ Returned
    /\ startVersion = [version |-> 0, err |-> "nil"]
    /\ startDirty
    /\ didReset
    /\ ret = RetNil
    /\ Completed
    /\ \A p \in Providers : Len(exported[p]) >= 2

\* C5: an invocation that starts on an empty store without a marker, meets no
\* environment failure and whose providers export valid streams with pairwise
\* distinct keys, none the marker's, returns nil whatever the interleaving, with
\* the store holding exactly the union of the exported pairs and the marker at
\* the completion constant.
C5_DisjointProviders ==
    (/\ Returned
     /\ startVersion.err = "ErrNotFound"
     /\ ~startDirty
     /\ NoIOFailure
     /\ ExportsValidDistinct)
    => (/\ ret = RetNil
        /\ Completed
        /\ AllRegisteredOk
        /\ Entries(store) = ExportedStore)

C5_Witness ==
    /\ Returned
    /\ startVersion.err = "ErrNotFound"
    /\ ret = RetNil
    /\ DOMAIN kvPkgs = Providers
    /\ \A p \in Providers : Len(task[p].issued) >= 1
    /\ Entries(store) = ExportedStore

\* C6: Migrate decides the outcome only when every goroutine it started has
\* ended; a goroutine that has not ended can always take its next step,
\* whatever happened to the others; and the returned error holds the error of
\* every goroutine that failed.
TaskStep(p) == TaskExport(p) \/ TaskImportHeader(p) \/ TaskImportEntry(p)
C6_WaitForAll ==
    /\ pc \in {"finalize", "dropsrc", "rmdir", "returned"} => \A p \in Providers : TaskDone(p)
    /\ \A p \in Providers :
          (~TaskDone(p) /\ \E q \in Providers : task[q].pc = "err") => ENABLED TaskStep(p)
    /\ Returned =>
          \A p \in Providers : task[p].pc = "err" => [by |-> p, err |-> task[p].err] \in ret.errs

C6_Witness ==
    /\ Returned
    /\ \A p \in Providers : task[p].pc = "err"
    /\ Cardinality(ret.errs) = 2
    /\ \E p \in Providers : Len(task[p].issued) >= 1

\* C3 as claimed: whenever an enabled invocation returns an error, for any
\* reason, the marker is present and below the completion constant.
C3_AnyFailureLeavesStale ==
    (Returned /\ ret.state = "err") =>
       (GetDBVersion(store).err = "nil" /\ GetDBVersion(store).version < InitialMigrateVersion)

\* C3 amended: an error from the staging directory, a provider goroutine or
\* the final marker write leaves the marker at the in-progress sentinel; an
\* earlier error leaves the marker as the invocation found it (absent once
\* the KV table was dropped); an error from dropping the source tables leaves
\* it at the completion constant.
ErrMsgs == {x.err.msg : x \in ret.errs}
C3_FailureAfterMarkLeavesStale ==
    (Returned /\ ret.state = "err") =>
       /\ ((\E x \in ret.errs : x.by # "")
             \/ ErrMsgs \cap {"create temp dir", "failed setting migrate version"} # {})
          => InProgress
       /\ (tmpDir = "none" /\ "create temp dir" \notin ErrMsgs)
          => IF didReset THEN DBVersionPath \notin DOMAIN store
             ELSE GetDBVersion(store) = startVersion
       /\ (tmpDir # "none" /\ "failed during drop tables" \in ErrMsgs) => Completed

C3_Witness ==
    /\ Returned
    /\ ret.state = "err"
    /\ "failed setting migrate version" \in ErrMsgs
    /\ startVersion.err = "ErrNotFound"
    /\ InProgress

\* The SetIf calls issued in this invocation, by goroutine and position.
Calls == {x \in Providers \X (1..(MaxEntries + 1)) : x[2] <= Len(task[x[1]].issued)}
Call(x) == task[x[1]].issued[x[2]]
CallsFor(k) == {x \in Calls : Call(x).key = k}
Succeeded(k) == {x \in CallsFor(k) : Call(x).err = "nil"}
CalledKeys == {Call(x).key : x \in Calls}
CallFailed(x) ==
    /\ Call(x).err = "ErrPredicateFailed"
    /\ x[2] = Len(task[x[1]].issued)
    /\ task[x[1]].pc = "err"
    /\ task[x[1]].err = Wrap("failed import on package", x[1], Err("", "ErrPredicateFailed"))

\* C4 as claimed: of the SetIf calls of one invocation for the same key,
\* exactly one succeeds and every other fails with the conflict error, failing
\* its goroutine and the invocation.
C4_ExactlyOneSucceeds ==
    \A k \in CalledKeys :
       Cardinality(CallsFor(k)) >= 2 =>
          /\ Cardinality(Succeeded(k)) = 1
          /\ \A x \in CallsFor(k) \ Succeeded(k) : CallFailed(x)
          /\ Returned => (ret.state = "err" /\ ~Completed)

\* C4 amended: of the SetIf calls of one invocation for a key, exactly one
\* succeeds if the key had no value when the goroutines were started and none
\* if it had (the marker's key, a key left by a completed invocation); every
\* other call fails with the conflict error, as the last call of its
\* goroutine, which fails with it; the invocation then returns an error and
\* the marker is not at the completion constant.
C4_AtMostOneSucceeds ==
    \A k \in CalledKeys :
       /\ Cardinality(Succeeded(k)) = IF k \in atDispatch THEN 0 ELSE 1
       /\ \A x \in CallsFor(k) \ Succeeded(k) : CallFailed(x)
       /\ (Returned /\ CallsFor(k) # Succeeded(k)) => (ret.state = "err" /\ ~Completed)

C4_Witness ==
    /\ Returned
    /\ \E x \in CallsFor(K1), y \in CallsFor(K1) :
         /\ x[1] # y[1]
         /\ Call(x).err = "nil"
         /\ Call(y).err = "ErrPredicateFailed"
         /\ task[x[1]].pc = "ok"

(***************************************************************************)
(* Properties of kv.Import called on its own (SpecImport): the call is     *)
(* goroutine "A", its reader file["A"], its target store.                  *)
(***************************************************************************)
Reader == file["A"].data
Imp == task["A"]
ImportDone == Imp.pc \in {"ok", "err"}
ImportErr(msg, is) == Wrap("failed import on package", "A", Err(msg, is))

\* C7: on a zero-byte stream Import fails with "empty file", on a first record
\* that decodes to the zero Header with "bad header format", both
\* ErrInvalidFormat; in both cases no SetIf was issued and the store is as it
\* was; and no SetIf is ever issued before a non-zero header was read.
C7_HeaderChecked ==
    /\ (Imp.pc # "import" /\ Len(Reader) = 0) =>
          /\ Imp.pc = "err" /\ Imp.err = ImportErr("empty file", "ErrInvalidFormat")
          /\ Imp.issued = << >> /\ store = store0
    /\ (Imp.pc # "import" /\ Len(Reader) >= 1 /\ ~Reader[1].bad /\ Reader[1].hdr = ZeroHeader) =>
          /\ Imp.pc = "err" /\ Imp.err = ImportErr("bad header format", "ErrInvalidFormat")
          /\ Imp.issued = << >> /\ store = store0
    /\ (Imp.issued # << >> \/ store # store0) =>
          (Len(Reader) >= 1 /\ ~Reader[1].bad /\ Reader[1].hdr # ZeroHeader)

C7_Witness ==
    /\ Imp.pc = "err"
    /\ Len(Reader) >= 2
    /\ Reader[1] = Object(ZeroHeader, Absent, Absent)
    /\ ValidRecord(Reader[2])
    /\ store0 = EmptyStore

\* C8 as claimed: once Import has consumed an entry record that carries no
\* value, at whatever position, it has failed at that record with
\* ErrInvalidFormat and has issued no SetIf for it.
C8_AbsentValueRejected ==
    \A i \in 2..Len(Reader) :
       (Imp.pos >= i /\ ~Reader[i].bad /\ Reader[i].value.tag \in {"absent", "null"}) =>
          /\ Imp.pc = "err" /\ Imp.err.is = "ErrInvalidFormat"
          /\ Imp.pos = i
          /\ Len(Imp.issued) = i - 2

\* C9 as claimed: once Import has consumed an entry record whose key is
\* zero-length or not carried, at whatever position, it has failed at that
\* record with ErrInvalidFormat and has issued no SetIf for it.
C9_EmptyKeyRejected ==
    \A i \in 2..Len(Reader) :
       (Imp.pos >= i /\ ~Reader[i].bad /\ Reader[i].key \in {Absent, Null, Str(EmptyBytes)}) =>
          /\ Imp.pc = "err" /\ Imp.err.is = "ErrInvalidFormat"
          /\ Imp.pos = i
          /\ Len(Imp.issued) = i - 2

\* C10: Import of the encoding of a header that is not all zero and of entries
\* with pairwise distinct non-empty keys and present values, into an empty
\* store, returns nil and leaves exactly these key/value pairs in the store,
\* in whatever order the entries stand.
SourceEntries == {[Key |-> Bytes(k), Value |-> Bytes(v)] : k \in {K1, K2}, v \in {EmptyBytes, V1}}
DistinctEntryKeys(es) == \A i \in 1..Len(es) : \A j \in 1..Len(es) : i # j => es[i].Key # es[j].Key
StoreOf(es) ==
    [k \in {es[i].Key.b : i \in 1..Len(es)} |->
        es[CHOOSE i \in 1..Len(es) : es[i].Key.b = k].Value.b]
SourceStreams == SeqsUpTo(SourceEntries, MaxEntries)
C10_RoundTrip ==
    (ImportDone /\ store0 = EmptyStore) =>
       \A h \in Headers \ {ZeroHeader} : \A es \in SourceStreams :
          (Reader = EncodeStream(h, es) /\ DistinctEntryKeys(es))
          => (/\ Imp.pc = "ok"
              /\ store = StoreOf(es)
              /\ Cardinality(DOMAIN store) = Len(es))

C10_Witness ==
    /\ Imp.pc = "ok"
    /\ store0 = EmptyStore
    /\ Reader = EncodeStream(VersionOnlyHeader,
                             <<[Key |-> Bytes(K2), Value |-> Bytes(EmptyBytes)],
                               [Key |-> Bytes(K1), Value |-> Bytes(V1)]>>)
    /\ store = [k \in {K1, K2} |-> IF k = K1 THEN V1 ELSE EmptyBytes]

\* C11: a call of Migrate with KVEnabled false returns nil in that very step
\* and changes neither the registry, the store (marker and entries) nor the KV
\* table; as long as the parameters of the last call have KVEnabled false,
\* Migrate is at none of its steps, no goroutine was started, no staging
\* directory or file exists and no source table was dropped, whatever the
\* marker and the DropTables flag.
DisabledCall == NotRunning /\ pc' \notin {"idle", "panic"} /\ ~params'.KVEnabled
C11_DisabledNoOp ==
    /\ [][DisabledCall =>
            /\ pc' = "returned" /\ ret' = RetNil
            /\ UNCHANGED <<kvPkgs, store, kvTable>>]_vars
    /\ [](~params.KVEnabled =>
            /\ pc \in {"idle", "returned", "panic"}
            /\ \A p \in Providers : task[p] = NoTask /\ file[p] = NoFile
            /\ tmpDir = "none" /\ tables = {} /\ dropped = {} /\ ~didReset)

C11_Witness ==
    /\ pc = "returned" /\ ret = RetNil
    /\ ~params.KVEnabled /\ params.DropTables
    /\ InProgress
    /\ DOMAIN store # {DBVersionPath}
    /\ DOMAIN kvPkgs = Providers

\* C12: source tables are dropped in an invocation only with DropTables set,
\* after every registered provider's goroutine returned success and the marker
\* was written to the completion constant, and then they are exactly the union
\* of the tables of all registered providers; an invocation that returns nil
\* with DropTables set has dropped that union, and one that returns an error
\* or runs with DropTables unset has dropped nothing.
RegisteredTables == UNION {kvPkgs[n].Tables : n \in DOMAIN kvPkgs}
C12_DropOnlyAfterSuccess ==
    /\ dropped # {} =>
          /\ params.DropTables
          /\ pc \in {"rmdir", "returned"}
          /\ AllRegisteredOk
          /\ Completed
          /\ dropped = RegisteredTables
    /\ (Returned /\ ret = RetNil /\ params.DropTables) => dropped = RegisteredTables
    /\ (Returned /\ ret.state = "err") => dropped = {}
    /\ ~params.DropTables => dropped = {}

C12_Witness ==
    /\ Returned /\ ret = RetNil
    /\ params.DropTables
    /\ dropped = {"ta", "tb"}
    /\ \A p \in Providers : Len(task[p].issued) >= 1

\* C13: Register of a name already in the registry panics and leaves the
\* registry as it was; Register of a new name adds exactly the entry given and
\* changes no other; UnRegisterAll leaves the registry empty; and an entry,
\* once stored, stays as first registered until the registry is emptied.
C13_RegisterOnce ==
    /\ [][\A a \in RegistryArgs :
            Register(a[1], a[2], a[3]) =>
               IF a[1] \in DOMAIN kvPkgs
               THEN pc' = "panic" /\ kvPkgs' = kvPkgs
               ELSE /\ pc' = "idle"
                    /\ DOMAIN kvPkgs' = DOMAIN kvPkgs \cup {a[1]}
                    /\ kvPkgs'[a[1]] = [Func |-> a[2], Tables |-> a[3]]
                    /\ \A n \in DOMAIN kvPkgs : kvPkgs'[n] = kvPkgs[n]]_vars
    /\ [][UnRegisterAll => DOMAIN kvPkgs' = {}]_vars
    /\ [][DOMAIN kvPkgs' # {} =>
            \A n \in DOMAIN kvPkgs : n \in DOMAIN kvPkgs' /\ kvPkgs'[n] = kvPkgs[n]]_vars

C13_Witness ==
    /\ pc = "panic"
    /\ DOMAIN kvPkgs = Providers
    /\ kvPkgs["A"] = [Func |-> "exportB", Tables |-> {"ta", "tb"}]
    /\ kvPkgs["B"] = [Func |-> "exportB", Tables |-> {}]

\* C14: Migrate goes to the reset exactly when the marker it found is a number
\* below the completion constant; it goes on without reset when the marker is
\* absent or a number at or above the constant; any other error of the read
\* (the store failing, a marker that is not a number) makes Migrate return it
\* wrapped in "validating version", with the marker and the entries as found,
\* no reset, no staging directory and no goroutine started.
Below == startVersion.err = "nil" /\ startVersion.version < InitialMigrateVersion
AtOrAbove == startVersion.err = "nil" /\ startVersion.version >= InitialMigrateVersion
PastValidate == pc \in {"mark", "mkdir", "dispatch", "wait", "finalize", "dropsrc", "rmdir"}
C14_ResetExactlyWhenBelow ==
    /\ (pc \in {"drop", "reopen"} \/ didReset) => Below
    /\ PastValidate => (didReset <=> Below)
    /\ PastValidate => (Below \/ AtOrAbove \/ startVersion.err = "ErrNotFound")
    /\ (Returned /\ "validating version" \in ErrMsgs) =>
          /\ \A x \in ret.errs : x.err.is \in {"io", "syntax"}
          /\ GetDBVersion(store) = startVersion
          /\ ~didReset /\ tmpDir = "none" /\ dropped = {}
          /\ \A p \in Providers : task[p] = NoTask /\ file[p] = NoFile
    /\ (Returned /\ startVersion.err = "syntax") =>
          /\ ErrMsgs \subseteq {"opening kv store", "validating version"}
          /\ store = store0

C14_Witness ==
    /\ Returned
    /\ startVersion.err = "syntax"
    /\ ret = RetErr({[by |-> "", err |-> Wrap("validating version", "", Err("", "syntax"))]})
    /\ K1 \in DOMAIN store

\* C15: from the first write of the marker to the write of the completion
\* constant the marker holds the in-progress sentinel; a crash in that
\* interval leaves the store as it is, and nothing changes the marker until
\* Migrate is called again; the invocation after such a crash reads a marker
\* below the completion constant and, once past the version check, has dropped
\* the KV table, so that it writes its own marker into an empty store.
Window == pc \in {"mkdir", "dispatch", "wait", "finalize"}
C15_CrashLeavesStale ==
    /\ [](Window => InProgress)
    /\ [][(Window /\ pc' = "idle") => (store' = store /\ kvTable' = kvTable)]_vars
    /\ [][(NotRunning /\ InProgress) => InProgress']_vars
    /\ []((afterCrash /\ pc \notin {"idle", "panic"}) => Below)
    /\ []((afterCrash /\ PastValidate) => didReset)
    /\ []((afterCrash /\ pc = "mark") => store = EmptyStore)

C15_Witness ==
    /\ afterCrash
    /\ Returned /\ ret = RetNil
    /\ startDirty /\ didReset
    /\ Completed
    /\ \A p \in Providers : Len(task[p].issued) >= 1

\* C16: an enabled invocation that finds the marker at or above the completion
\* constant does what one that finds no marker does: it never resets the KV
\* table; past the version check it overwrites the marker with the in-progress
\* sentinel; it starts a goroutine for every registered provider; it writes
\* the completion constant only after all of them returned success; and it
\* returns nil only after having run them all.
NoMarker == startVersion.err = "ErrNotFound"
Started == {p \in Providers : task[p].pc # "none"}
FoundComplete ==
    GetDBVersion(store0).err = "nil" /\ GetDBVersion(store0).version >= InitialMigrateVersion
MarkerStaysComplete ==
    GetDBVersion(store).err = "nil" /\ GetDBVersion(store).version >= InitialMigrateVersion
EntriesStay ==
    \A k \in DOMAIN Entries(store0) : k \in DOMAIN store /\ store[k] = store0[k]
C17_CompleteNothingToDo == FoundComplete => (MarkerStaysComplete /\ EntriesStay)

\* C18 as claimed: Migrate's enumeration of the registry never overlaps a
\* registry mutation (no iteration has begun and not ended while Register or
\* UnRegisterAll is inside its critical section, and the runtime never meets
\* an iteration and a write together), and when the loop has ended the
\* goroutines started and the tables collected are those of the registry as
\* it was at one single moment.
NoRaceFatal == pc # "fatal"
NoOverlap == ~(pc = "dispatch" /\ Started # {} /\ registerMu = "reg")
OneMoment ==
    pc = "wait" =>
       \E r \in snap : Started = DOMAIN r /\ tables = UNION {r[n].Tables : n \in DOMAIN r}
C18_StableSnapshot == NoRaceFatal /\ NoOverlap /\ OneMoment

\* C19 as claimed: when Import has failed at the i-th entry record, the records
\* 1..i-1 were entries (non-empty key, value present) and each was written, in
\* stream order, with its own key and value, and is in the store; the store
\* holds nothing else new; and the error is the one of record i: the decode
\* error, the empty key, the absent value, or the conflict of its SetIf. When
\* Import has returned nil, every entry record was written once, in order.
EntryRec(j) == Reader[j + 1]
Written(j) ==
    LET r == EntryRec(j) IN
    /\ ValidRecord(r)
    /\ r.key.b \in DOMAIN store /\ store[r.key.b] = r.value.b
    /\ j <= Len(Imp.issued)
    /\ Imp.issued[j] = [key |-> r.key.b, value |-> r.value.b, err |-> "nil"]
FaultOf(r) ==
    IF r.bad THEN Err("decoding entry", "json")
    ELSE IF r.key \in {Absent, Null, Str(EmptyBytes)} THEN Err("bad entry key", "ErrInvalidFormat")
    ELSE IF r.value \in {Absent, Null} THEN Err("bad entry value", "ErrInvalidFormat")
    ELSE IF r.key.b \in DOMAIN store THEN Err("", "ErrPredicateFailed")
    ELSE Err("", "nil")
OnlyWritten(n) ==
    /\ DOMAIN store = DOMAIN store0 \cup {EntryRec(j).key.b : j \in 1..n}
    /\ \A k \in DOMAIN store0 : store[k] = store0[k]
    /\ {c \in 1..Len(Imp.issued) : Imp.issued[c].err = "nil"} = 1..n
C19_StopAtFirstFailure ==
    /\ (Imp.pc = "err" /\ Imp.pos >= 2) =>
          LET i == Imp.pos - 1 IN
          /\ \A j \in 1..(i - 1) : Written(j)
          /\ OnlyWritten(i - 1)
          /\ Imp.err = Wrap("failed import on package", "A", FaultOf(EntryRec(i)))
    /\ Imp.pc = "ok" =>
          /\ \A j \in 1..(Len(Reader) - 1) : Written(j)
          /\ OnlyWritten(Len(Reader) - 1)
          /\ Len(Imp.issued) = Len(Reader) - 1

\* C20: a new walker's mark has HasMore set and nothing else; after Walk
\* returned nil the mark is Mark{HasMore: false}; after Walk, called on a mark
\* with HasMore set, returned an error, HasMore is still set, ContinuationToken
\* is the token that fetched the last page listed with success and LastKey the
\* last name handed to walkFn (both as they were when nothing was listed or
\* handed in this Walk); and a Walk resumed from the mark of a failed Walk
\* hands to walkFn, in listing order, exactly the blobs listed after LastKey
\* and none that an earlier Walk of the chain handed.
Flat ==
    LET f[k \in 0..Len(blobs)] == IF k = 0 THEN << >> ELSE f[k - 1] \o blobs[k] IN f[Len(blobs)]
ListedAfter(k) == SelectSeq(Flat, LAMBDA b : b > k)
IsPrefix(s, t) == Len(s) <= Len(t) /\ \A j \in 1..Len(s) : s[j] = t[j]
LastOr(s, d) == IF s = << >> THEN d ELSE s[Len(s)]
WalkReturned(r) == walk.pc = "out" /\ walk.ret = r
C20_WalkerResumes ==
    /\ WalkReturned("none") => mark = NewMark
    /\ WalkReturned("nil") => mark = [HasMore |-> FALSE, LastKey |-> 0, ContinuationToken |-> 0]
    /\ (WalkReturned("err") /\ walk.mark0.HasMore) =>
          /\ mark.HasMore
          /\ mark.ContinuationToken = LastOr(walk.fetched, walk.mark0.ContinuationToken)
          /\ mark.LastKey = LastOr(walk.handed, walk.mark0.LastKey)
    /\ hist.resumed =>
          /\ IsPrefix(walk.handed, ListedAfter(walk.op.After))
          /\ Range(walk.handed) \cap hist.before = {}
          /\ WalkReturned("nil") => walk.handed = ListedAfter(walk.op.After)

C20_Witness ==
    /\ hist.resumed /\ WalkReturned("nil")
    /\ walk.op.ContinuationToken > 0 /\ walk.op.After > 0
    /\ Len(walk.handed) >= 2
    /\ hist.before # {}
    /\ Len(walk.fetched) >= 2

====
